---- MODULE Spec2Model ----
(***************************************************************************)
(* Model of bot/discordsmf.py: the session lifecycle of the Discord bot    *)
(* (main, on_ready), its three message handlers, the heartbeat task and    *)
(* quit().  The asyncio event loop is one thread of cooperative            *)
(* scheduling: a handler runs from its start to its return (or to the      *)
(* statement that raises) as one step; the heartbeat coroutine is cut at   *)
(* its only suspension point, the sleep.                                   *)
(***************************************************************************)
EXTENDS Integers, Sequences, FiniteSets, TLC

VARIABLES
    config,          \* BotConfig: server_name, channel_name (read-only after startup)
    servers,         \* client.servers: the joined servers, in iteration order
    main_pc,         \* where main() is: "init", "running" (inside client.run), "stopped", "crashed"
    on_ready_pc,     \* "idle" (not connected), "dispatched", "returned", "raised"
    is_closed,       \* client.is_closed
    heartbeat_task,  \* "None", or the task's state: "pending", "sleeping", "woken", "returned", "cancelled"
    discord_server,  \* 0 (None) or an index into servers
    discord_channel, \* NoChannel (None) or a channel reference <<server, channel>>
    top_role,        \* 0 (None) or an index into the resolved server's roles
    log,             \* the lines handed to the logger, in order
    sleeps,          \* number of heartbeat sleeps that have completed
    delivered,       \* number of message events delivered to the handlers
    quits,           \* number of quit() calls made
    last             \* the handler or step that ran last, with its input

vars == <<config, servers, main_pc, on_ready_pc, is_closed, heartbeat_task,
          discord_server, discord_channel, top_role, log, sleeps, delivered,
          quits, last>>

-----------------------------------------------------------------------------
(* Bounds *)

MaxNameLen == 2
MaxTicks == 2
MaxEvents == 1
MaxQuits == 2

\* Events delivered in a burst.
MaxBurst == 2

-----------------------------------------------------------------------------
(* Names and str.casefold *)

Chars == {"a", "A", "b"}

\* Non-empty names, as Discord stores them.
Names == UNION {[1..k -> Chars] : k \in 1..MaxNameLen}

\* A config accessor's value: a string (possibly empty) or None.
None == [some |-> FALSE, v |-> <<>>]

Some(s) == [some |-> TRUE, v |-> s]

ConfigValues == {None} \cup {Some(s) : s \in Names \cup {<<>>}}

casefold_char(c) == IF c = "A" THEN "a" ELSE c

casefold_identity(s) == s

casefold(s) == [i \in 1..Len(s) |-> casefold_char(s[i])]

-----------------------------------------------------------------------------
(* Log lines *)

Line(kind, author, text) == [kind |-> kind, author |-> author, text |-> text]

Info(kind) == Line(kind, "", "")

Thump == Line("/thump/", "", "")

-----------------------------------------------------------------------------
(* The joined servers and the events the transport delivers *)

Server(name, channels, roles) == [name |-> name, channels |-> channels, roles |-> roles]

\* Two joined servers.  The second carries the stored name n, as its own name
\* and as the name of its second channel; roles are given by their position.
WorldOf(n) ==
    << Server(<<"b">>, << n >>, << 0 >>),
       Server(n, << <<"b">>, n >>, << 0, 2, 2, 1 >>) >>

NoChannel == <<0, 0>>

ChannelRefs == {<<s, c>> : s \in 1..2, c \in 1..2} \ {<<1, 2>>}

Authors == {[nick |-> "", name |-> "bob"], [nick |-> "Bob", name |-> "bob"]}

Contents == {"hi", "yo"}

Message(channel, author, content) ==
    [channel |-> channel, author |-> author, content |-> content]

Messages == {Message(ch, a, c) : ch \in ChannelRefs, a \in Authors, c \in Contents}

NoMessage == Message(NoChannel, [nick |-> "", name |-> ""], "")

Step(op, before, after) == [op |-> op, before |-> before, after |-> after]

-----------------------------------------------------------------------------
(* Entity resolution, as on_ready computes it *)

\* next(x for x in xs if x.name.casefold() == find): the first match in
\* iteration order, 0 for StopIteration.
FirstMatch(names, find) ==
    LET hits == {i \in 1..Len(names) : casefold(names[i]) = find}
    IN IF hits = {} THEN 0
       ELSE CHOOSE i \in hits : \A j \in hits : i <= j

ServerNames == [i \in 1..Len(servers) |-> servers[i].name]

find_server(server_name) == FirstMatch(ServerNames, casefold(server_name))

find_channel(s, channel_name) ==
    FirstMatch(servers[s].channels, casefold(channel_name))

\* max(roles, key=position): the first role holding the maximal position.
max_role(roles) ==
    CHOOSE i \in 1..Len(roles) :
        /\ \A j \in 1..Len(roles) : roles[j] <= roles[i]
        /\ \A j \in 1..(i - 1) : roles[j] < roles[i]

author_of_name_only(m) == m.author.name

\* message.author.nick or message.author.name
author_of(m) == IF m.author.nick # "" THEN m.author.nick ELSE m.author.name

-----------------------------------------------------------------------------
(* The session state of the specification, read off the program's state *)

\* The loop runs inside client.run.  The heartbeat task was scheduled before
\* client.run was entered, so its first step runs before any other callback.
LoopRunning == main_pc = "running" /\ heartbeat_task # "pending"

SessionState ==
    IF is_closed \/ main_pc \in {"stopped", "crashed"} THEN "Closed"
    ELSE IF on_ready_pc = "idle" THEN "Disconnected"
    ELSE IF on_ready_pc = "returned" THEN "Active"
    ELSE "Resolving"

HeartbeatAlive == heartbeat_task \in {"pending", "sleeping", "woken"}

ThumpCount == Cardinality({i \in 1..Len(log) : log[i] = Thump})

-----------------------------------------------------------------------------
(* Startup *)

InitWith(cfgs, worlds) ==
    /\ config \in cfgs
    /\ servers \in worlds
    /\ main_pc = "init"
    /\ on_ready_pc = "idle"
    /\ is_closed = FALSE
    /\ heartbeat_task = "None"
    /\ discord_server = 0
    /\ discord_channel = NoChannel
    /\ top_role = 0
    /\ log = <<>>
    /\ sleeps = 0
    /\ delivered = 0
    /\ quits = 0
    /\ last = Step("init", NoMessage, NoMessage)

Config(server_name, channel_name) ==
    [server_name |-> server_name, channel_name |-> channel_name]

\* The configurations of the lifecycle specification: each name is absent,
\* matches the stored name up to case, or matches nothing.
LifecycleNames == {None, Some(<<"a", "b">>), Some(<<"a">>)}

Init ==
    InitWith({Config(s, c) : s \in LifecycleNames, c \in LifecycleNames},
             {WorldOf(<<"A", "b">>)})

\* main(): log, create the heartbeat task, enter client.run.
MainStart ==
    /\ main_pc = "init"
    /\ main_pc' = "running"
    /\ log' = Append(log, Info("=== STARTED ==="))
    /\ heartbeat_task' = "pending"
    /\ last' = Step("main", NoMessage, NoMessage)
    /\ UNCHANGED <<config, servers, on_ready_pc, is_closed, discord_server,
                   discord_channel, top_role, sleeps, delivered, quits>>

\* client.run logs in and connects; the READY event schedules on_ready.
Connect ==
    /\ LoopRunning
    /\ ~is_closed
    /\ on_ready_pc = "idle"
    /\ on_ready_pc' = "dispatched"
    /\ last' = Step("connect", NoMessage, NoMessage)
    /\ UNCHANGED <<config, servers, main_pc, is_closed, heartbeat_task,
                   discord_server, discord_channel, top_role, log, sleeps,
                   delivered, quits>>

\* client.run refuses the token: the exception leaves client.run and main().
AuthRejected ==
    /\ LoopRunning
    /\ ~is_closed
    /\ on_ready_pc = "idle"
    /\ main_pc' = "crashed"
    /\ last' = Step("auth_rejected", NoMessage, NoMessage)
    /\ UNCHANGED <<config, servers, on_ready_pc, is_closed, heartbeat_task,
                   discord_server, discord_channel, top_role, log, sleeps,
                   delivered, quits>>

\* The connection is lost: the client closes and the exception leaves
\* client.run and main().
NetworkFailure ==
    /\ LoopRunning
    /\ ~is_closed
    /\ main_pc' = "crashed"
    /\ is_closed' = TRUE
    /\ last' = Step("network_failure", NoMessage, NoMessage)
    /\ UNCHANGED <<config, servers, on_ready_pc, heartbeat_task,
                   discord_server, discord_channel, top_role, log, sleeps,
                   delivered, quits>>

\* client.run returns once the client is closed; the loop is closed with it.
RunReturns ==
    /\ LoopRunning
    /\ is_closed
    /\ main_pc' = "stopped"
    /\ log' = Append(log, Info("=== STOPPED ==="))
    /\ last' = Step("run_returns", NoMessage, NoMessage)
    /\ UNCHANGED <<config, servers, on_ready_pc, is_closed, heartbeat_task,
                   discord_server, discord_channel, top_role, sleeps,
                   delivered, quits>>

-----------------------------------------------------------------------------
(* on_ready *)

client_close_toggle(closed) == ~closed

\* client.close(): the client is closed afterwards, whether or not it was.
client_close(closed) == TRUE

ReadyPrefix == <<Info("=== CONNECTED ==="), Info("Call me"), Info("Member of")>>

\* config.server_name is None: None.casefold() raises before any lookup.
OnReadyRaisesAtServer ==
    /\ ~config.server_name.some
    /\ on_ready_pc' = "raised"
    /\ log' = log \o ReadyPrefix
    /\ UNCHANGED <<is_closed, discord_server, discord_channel, top_role>>

OnReadyServerNotFound_noclose ==
    /\ config.server_name.some
    /\ find_server(config.server_name.v) = 0
    /\ on_ready_pc' = "returned"
    /\ log' = log \o ReadyPrefix \o <<Info("ERROR Not a member of any server named")>>
    /\ UNCHANGED <<is_closed, discord_server, discord_channel, top_role>>

\* No server matches: log the error, close the client, return.
OnReadyServerNotFound ==
    /\ config.server_name.some
    /\ find_server(config.server_name.v) = 0
    /\ on_ready_pc' = "returned"
    /\ log' = log \o ReadyPrefix \o <<Info("ERROR Not a member of any server named")>>
    /\ is_closed' = client_close(is_closed)
    /\ UNCHANGED <<discord_server, discord_channel, top_role>>

\* The server is found and stored; config.channel_name is None:
\* None.casefold() raises.
OnReadyRaisesAtChannel ==
    /\ config.server_name.some
    /\ find_server(config.server_name.v) # 0
    /\ ~config.channel_name.some
    /\ discord_server' = find_server(config.server_name.v)
    /\ on_ready_pc' = "raised"
    /\ log' = log \o ReadyPrefix
    /\ UNCHANGED <<is_closed, discord_channel, top_role>>

OnReadyChannelNotFound_noclose ==
    /\ config.server_name.some
    /\ find_server(config.server_name.v) # 0
    /\ config.channel_name.some
    /\ find_channel(find_server(config.server_name.v), config.channel_name.v) = 0
    /\ discord_server' = find_server(config.server_name.v)
    /\ on_ready_pc' = "returned"
    /\ log' = log \o ReadyPrefix \o <<Info("ERROR does not have any channels named")>>
    /\ UNCHANGED <<is_closed, discord_channel, top_role>>

\* The server is found and stored, no channel of it matches: log the error,
\* close the client, return.
OnReadyChannelNotFound ==
    /\ config.server_name.some
    /\ find_server(config.server_name.v) # 0
    /\ config.channel_name.some
    /\ find_channel(find_server(config.server_name.v), config.channel_name.v) = 0
    /\ discord_server' = find_server(config.server_name.v)
    /\ on_ready_pc' = "returned"
    /\ log' = log \o ReadyPrefix \o <<Info("ERROR does not have any channels named")>>
    /\ is_closed' = client_close(is_closed)
    /\ UNCHANGED <<discord_channel, top_role>>

\* Both are found: store server, channel and top role, log, return.
OnReadyResolved ==
    /\ config.server_name.some
    /\ find_server(config.server_name.v) # 0
    /\ config.channel_name.some
    /\ LET s == find_server(config.server_name.v)
           c == find_channel(s, config.channel_name.v)
       IN /\ c # 0
          /\ discord_server' = s
          /\ discord_channel' = <<s, c>>
          /\ top_role' = max_role(servers[s].roles)
    /\ on_ready_pc' = "returned"
    /\ log' = log \o ReadyPrefix \o <<Info("Listening to"), Info("Treating members in")>>
    /\ UNCHANGED is_closed

OnReady ==
    /\ LoopRunning
    /\ on_ready_pc = "dispatched"
    /\ \/ OnReadyRaisesAtServer
       \/ OnReadyServerNotFound
       \/ OnReadyRaisesAtChannel
       \/ OnReadyChannelNotFound
       \/ OnReadyResolved
    /\ last' = Step("on_ready", NoMessage, NoMessage)
    /\ UNCHANGED <<config, servers, main_pc, heartbeat_task, sleeps,
                   delivered, quits>>

-----------------------------------------------------------------------------
(* The three message handlers *)

created_lines_nofilter(m) == <<Line("<>", author_of(m), m.content)>>

\* logger.info("<{}> {}")
created_lines(m) ==
    IF m.channel # discord_channel THEN <<>>
    ELSE <<Line("<>", author_of(m), m.content)>>

edited_lines_swapped(before, after) ==
    IF after.channel # discord_channel THEN <<>>
    ELSE IF before.content = after.content THEN <<>>
    ELSE <<Line("EDITED", author_of(after), "->"),
           Line("\t", "", after.content),
           Line("\t", "", before.content)>>

\* logger.info("EDITED: <{}> {}->{}"), then before.content, then after.content
edited_lines(before, after) ==
    IF after.channel # discord_channel THEN <<>>
    ELSE IF before.content = after.content THEN <<>>
    ELSE <<Line("EDITED", author_of(after), "->"),
           Line("\t", "", before.content),
           Line("\t", "", after.content)>>

deleted_lines_nofilter(m) == <<Line("DELTEATED", author_of(m), m.content)>>

\* logger.info("DELTEATED: <{}> {}")
deleted_lines(m) ==
    IF m.channel # discord_channel THEN <<>>
    ELSE <<Line("DELTEATED", author_of(m), m.content)>>

Handler(op, before, after, lines) ==
    /\ LoopRunning
    /\ on_ready_pc # "idle"
    /\ delivered < MaxEvents
    /\ delivered' = delivered + 1
    /\ log' = log \o lines
    /\ last' = Step(op, before, after)
    /\ UNCHANGED <<config, servers, main_pc, on_ready_pc, is_closed,
                   heartbeat_task, discord_server, discord_channel, top_role,
                   sleeps, quits>>

on_message ==
    \E m \in Messages : Handler("on_message", m, m, created_lines(m))

on_message_edit ==
    \E before \in Messages, c \in Contents :
        LET after == [before EXCEPT !.content = c]
        IN Handler("on_message_edit", before, after, edited_lines(before, after))

on_message_delete ==
    \E m \in Messages : Handler("on_message_delete", m, m, deleted_lines(m))

-----------------------------------------------------------------------------
(* The heartbeat task and quit *)

\* The loop first runs the task: it reaches its first sleep.
HeartbeatBegin ==
    /\ main_pc = "running"
    /\ heartbeat_task = "pending"
    /\ heartbeat_task' = "sleeping"
    /\ last' = Step("heartbeat_begin", NoMessage, NoMessage)
    /\ UNCHANGED <<config, servers, main_pc, on_ready_pc, is_closed,
                   discord_server, discord_channel, top_role, log, sleeps,
                   delivered, quits>>

\* asyncio.sleep(interval) completes: the task is scheduled to resume.
\* (MaxTicks caps the sleeps of an open client only: after a close the task
\* resumes at most once more.)
HeartbeatSleepDone ==
    /\ LoopRunning
    /\ heartbeat_task = "sleeping"
    /\ sleeps < MaxTicks \/ is_closed
    /\ heartbeat_task' = "woken"
    /\ sleeps' = sleeps + 1
    /\ last' = Step("heartbeat_sleep_done", NoMessage, NoMessage)
    /\ UNCHANGED <<config, servers, main_pc, on_ready_pc, is_closed,
                   discord_server, discord_channel, top_role, log,
                   delivered, quits>>

heartbeat_silent ==
    /\ LoopRunning
    /\ heartbeat_task = "woken"
    /\ IF is_closed
       THEN heartbeat_task' = "returned" /\ log' = log
       ELSE heartbeat_task' = "sleeping" /\ log' = log
    /\ last' = Step("heartbeat", NoMessage, NoMessage)
    /\ UNCHANGED <<config, servers, main_pc, on_ready_pc, is_closed,
                   discord_server, discord_channel, top_role, sleeps,
                   delivered, quits>>

heartbeat_active_only ==
    /\ LoopRunning
    /\ heartbeat_task = "woken"
    /\ IF is_closed
       THEN heartbeat_task' = "returned" /\ log' = log
       ELSE /\ heartbeat_task' = "sleeping"
            /\ log' = IF on_ready_pc = "returned" THEN Append(log, Thump) ELSE log
    /\ last' = Step("heartbeat", NoMessage, NoMessage)
    /\ UNCHANGED <<config, servers, main_pc, on_ready_pc, is_closed,
                   discord_server, discord_channel, top_role, sleeps,
                   delivered, quits>>

heartbeat_preempting ==
    /\ LoopRunning
    /\ heartbeat_task = "woken"
    /\ IF is_closed
       THEN heartbeat_task' = "returned" /\ log' = log
       ELSE /\ heartbeat_task' = "sleeping"
            /\ log' = IF Len(log) >= 3 /\ log[Len(log) - 2].kind = "EDITED"
                      THEN SubSeq(log, 1, Len(log) - 1) \o <<Thump, log[Len(log)]>>
                      ELSE Append(log, Thump)
    /\ last' = Step("heartbeat", NoMessage, NoMessage)
    /\ UNCHANGED <<config, servers, main_pc, on_ready_pc, is_closed,
                   discord_server, discord_channel, top_role, sleeps,
                   delivered, quits>>

\* The task resumes after its sleep: return if the client is closed,
\* otherwise log and sleep again.
heartbeat ==
    /\ LoopRunning
    /\ heartbeat_task = "woken"
    /\ IF is_closed
       THEN heartbeat_task' = "returned" /\ log' = log
       ELSE heartbeat_task' = "sleeping" /\ log' = Append(log, Thump)
    /\ last' = Step("heartbeat", NoMessage, NoMessage)
    /\ UNCHANGED <<config, servers, main_pc, on_ready_pc, is_closed,
                   discord_server, discord_channel, top_role, sleeps,
                   delivered, quits>>

task_cancel_ignored(t) == t

\* Task.cancel(): a task that is not done is cancelled where it is
\* suspended; a finished or cancelled one is left as it is.
task_cancel(t) == IF t \in {"pending", "sleeping", "woken"} THEN "cancelled" ELSE t

quit_resets ==
    /\ main_pc = "init" \/ LoopRunning
    /\ quits < MaxQuits
    /\ quits' = quits + 1
    /\ heartbeat_task' = IF heartbeat_task # "None"
                         THEN task_cancel(heartbeat_task)
                         ELSE heartbeat_task
    /\ is_closed' = client_close(is_closed)
    /\ discord_channel' = NoChannel
    /\ last' = Step("quit", NoMessage, NoMessage)
    /\ UNCHANGED <<config, servers, main_pc, on_ready_pc, discord_server,
                   top_role, log, sleeps, delivered>>

\* quit(): cancel the heartbeat task if there is one, then close the client.
quit ==
    /\ main_pc = "init" \/ LoopRunning
    /\ quits < MaxQuits
    /\ quits' = quits + 1
    /\ heartbeat_task' = IF heartbeat_task # "None"
                         THEN task_cancel(heartbeat_task)
                         ELSE heartbeat_task
    /\ is_closed' = client_close(is_closed)
    /\ last' = Step("quit", NoMessage, NoMessage)
    /\ UNCHANGED <<config, servers, main_pc, on_ready_pc, discord_server,
                   discord_channel, top_role, log, sleeps, delivered>>

-----------------------------------------------------------------------------

Next ==
    \/ MainStart
    \/ Connect
    \/ AuthRejected
    \/ NetworkFailure
    \/ RunReturns
    \/ OnReady
    \/ on_message
    \/ on_message_edit
    \/ on_message_delete
    \/ HeartbeatBegin
    \/ HeartbeatSleepDone
    \/ heartbeat
    \/ quit

Spec == Init /\ [][Next]_vars

\* The scheduling the event loop gives: a task that is ready to run is run, a
\* timer that is due fires, and client.run returns once the client is closed.
Fairness ==
    /\ WF_vars(HeartbeatBegin)
    /\ WF_vars(HeartbeatSleepDone)
    /\ WF_vars(heartbeat)
    /\ WF_vars(RunReturns)

FairSpec == Init /\ [][Next]_vars /\ Fairness

QuitCancel_skipped ==
    /\ main_pc = "init" \/ LoopRunning
    /\ last.op # "quit_cancel"
    /\ quits < MaxQuits
    /\ quits' = quits + 1
    /\ last' = Step("quit_cancel", NoMessage, NoMessage)
    /\ UNCHANGED <<config, servers, main_pc, on_ready_pc, is_closed,
                   heartbeat_task, discord_server, discord_channel, top_role,
                   log, sleeps, delivered>>

\* quit() statement by statement: first the cancel of the heartbeat task ...
QuitCancel ==
    /\ main_pc = "init" \/ LoopRunning
    /\ last.op # "quit_cancel"
    /\ quits < MaxQuits
    /\ quits' = quits + 1
    /\ heartbeat_task' = IF heartbeat_task # "None"
                         THEN task_cancel(heartbeat_task)
                         ELSE heartbeat_task
    /\ last' = Step("quit_cancel", NoMessage, NoMessage)
    /\ UNCHANGED <<config, servers, main_pc, on_ready_pc, is_closed,
                   discord_server, discord_channel, top_role, log, sleeps,
                   delivered>>

\* ... and then client.close(), which the same call reaches next.
QuitClose ==
    /\ last.op = "quit_cancel"
    /\ is_closed' = client_close(is_closed)
    /\ last' = Step("quit_close", NoMessage, NoMessage)
    /\ UNCHANGED <<config, servers, main_pc, on_ready_pc, heartbeat_task,
                   discord_server, discord_channel, top_role, log, sleeps,
                   delivered, quits>>

\* The program with quit() taken in its two statements; nothing else runs
\* between them, as quit() does not suspend before it calls client.close().
NextQuit ==
    \/ /\ last.op # "quit_cancel"
       /\ \/ MainStart
          \/ Connect
          \/ AuthRejected
          \/ NetworkFailure
          \/ RunReturns
          \/ OnReady
          \/ on_message
          \/ on_message_edit
          \/ on_message_delete
          \/ HeartbeatBegin
          \/ HeartbeatSleepDone
          \/ heartbeat
    \/ QuitCancel
    \/ QuitClose

SpecQuit == Init /\ [][NextQuit]_vars

\* A burst of events against a session whose names resolve: up to MaxBurst
\* events of any kind, interleaved with the heartbeat in every order.
InitBurst ==
    InitWith({Config(Some(<<"a", "b">>), Some(<<"a", "b">>))},
             {WorldOf(<<"A", "b">>)})

BurstMessages == {m \in Messages : m.author.nick = "Bob"}

HandlerBurst(op, before, after, lines) ==
    /\ LoopRunning
    /\ on_ready_pc # "idle"
    /\ delivered < MaxBurst
    /\ delivered' = delivered + 1
    /\ log' = log \o lines
    /\ last' = Step(op, before, after)
    /\ UNCHANGED <<config, servers, main_pc, on_ready_pc, is_closed,
                   heartbeat_task, discord_server, discord_channel, top_role,
                   sleeps, quits>>

on_message_burst ==
    \E m \in BurstMessages :
        HandlerBurst("on_message", m, m, created_lines(m))

on_message_edit_burst ==
    \E before \in BurstMessages, c \in Contents :
        LET after == [before EXCEPT !.content = c]
        IN HandlerBurst("on_message_edit", before, after,
                        edited_lines(before, after))

on_message_delete_burst ==
    \E m \in BurstMessages :
        HandlerBurst("on_message_delete", m, m, deleted_lines(m))

NextBurst ==
    \/ MainStart
    \/ HeartbeatBegin
    \/ Connect
    \/ OnReady
    \/ on_message_burst
    \/ on_message_edit_burst
    \/ on_message_delete_burst
    \/ HeartbeatSleepDone
    \/ heartbeat

SpecBurst == InitBurst /\ [][NextBurst]_vars

\* Resolution on its own: every configuration against every stored name,
\* with main, the connection and on_ready as the only steps.
InitResolve ==
    InitWith({Config(s, c) : s \in ConfigValues, c \in ConfigValues},
             {WorldOf(n) : n \in Names})

NextResolve ==
    \/ MainStart
    \/ HeartbeatBegin
    \/ Connect
    \/ OnReady

SpecResolve == InitResolve /\ [][NextResolve]_vars

-----------------------------------------------------------------------------
(* Properties *)

\* on_ready has run to its end or to the statement that raised.
OnReadyRan == on_ready_pc \in {"returned", "raised"}

ServerNotFound ==
    /\ on_ready_pc = "returned"
    /\ config.server_name.some
    /\ find_server(config.server_name.v) = 0

ProgramVars ==
    <<config, servers, main_pc, on_ready_pc, is_closed, heartbeat_task,
      discord_server, discord_channel, top_role>>

\* C1: when no joined server matches the configured name, the session is
\* shut down through quit, so that once client.run has returned no heartbeat
\* task is left alive.
C1_ServerNotFoundLeavesNoHeartbeat ==
    (ServerNotFound /\ main_pc = "stopped") => ~HeartbeatAlive

\* C2: once the client is closed and client.run has returned, the heartbeat
\* task is not left alive: it was cancelled before or during the shutdown.
C2_ClosedSessionHasNoHeartbeat ==
    (is_closed /\ main_pc = "stopped") => ~HeartbeatAlive

\* C3: a cancelled heartbeat task stays cancelled and adds no liveness line;
\* a quit() that finds the task suspended in its sleep (or scheduled to
\* resume from it) cancels it there, so the iteration after the sleep never
\* runs.
C3_NoThumpAfterCancel ==
    [][ /\ heartbeat_task = "cancelled" =>
              heartbeat_task' = "cancelled" /\ ThumpCount' = ThumpCount
        /\ (quits' = quits + 1 /\ heartbeat_task \in {"sleeping", "woken"}) =>
              heartbeat_task' = "cancelled" /\ ThumpCount' = ThumpCount
      ]_vars

\* The task was cancelled in its second sleep, after one liveness line, and
\* the program ran on to the end of main.
C3_Witness ==
    /\ heartbeat_task = "cancelled"
    /\ sleeps = 1
    /\ ThumpCount = 1
    /\ main_pc = "stopped"

\* C4: while the session is Active and the heartbeat task is alive, the log
\* holds exactly one liveness line per completed sleep that the task has
\* resumed from, and none more.
C4_OneThumpPerSleep ==
    (SessionState = "Active" /\ HeartbeatAlive) =>
        ThumpCount = sleeps - (IF heartbeat_task = "woken" THEN 1 ELSE 0)

C4_Witness ==
    /\ SessionState = "Active"
    /\ heartbeat_task = "sleeping"
    /\ sleeps = 2
    /\ ThumpCount = 2

\* C5: a quit() that directly follows a quit() changes nothing of the
\* program's state, and leaves the client closed and the heartbeat task not
\* alive.
C5_QuitIdempotent ==
    [][ (last.op = "quit" /\ last'.op = "quit") =>
            /\ UNCHANGED ProgramVars
            /\ log' = log
            /\ is_closed'
            /\ ~HeartbeatAlive'
      ]_vars

\* Two quit() calls in succession from the Active state: nothing but quit()
\* can have run since the session was Active.
C5_Witness ==
    /\ last.op = "quit"
    /\ quits = 2
    /\ on_ready_pc = "returned"
    /\ discord_channel # NoChannel
    /\ delivered = 0
    /\ sleeps = 0
    /\ main_pc = "running"
    /\ heartbeat_task = "cancelled"
    /\ is_closed

Rank(st) ==
    CASE st = "Disconnected" -> 0
      [] st = "Resolving" -> 1
      [] st = "Active" -> 2
      [] st = "Closed" -> 3

\* An on_ready that ends in a server or channel resolution failure.
ResolutionFailureStep ==
    /\ on_ready_pc = "dispatched"
    /\ on_ready_pc' = "returned"
    /\ discord_channel' = NoChannel

\* C6: the session state never moves backwards in the order Disconnected,
\* Resolving, Active, Closed; Resolving is entered from Disconnected only;
\* Active is entered only from Resolving, by an on_ready that resolved both
\* server and channel; a resolution failure leaves the session Closed, and
\* the session was not Active before it.
C6_StateMachine ==
    [][ /\ Rank(SessionState') >= Rank(SessionState)
        /\ (SessionState' = "Resolving" /\ SessionState # "Resolving") =>
              SessionState = "Disconnected"
        /\ (SessionState' = "Active" /\ SessionState # "Active") =>
              /\ SessionState = "Resolving"
              /\ last'.op = "on_ready"
              /\ discord_server' # 0
              /\ discord_channel' # NoChannel
        /\ ResolutionFailureStep =>
              /\ SessionState \in {"Resolving", "Closed"}
              /\ SessionState' = "Closed"
      ]_vars

\* A channel resolution failure took the session from Resolving to Closed.
C6_Witness ==
    /\ last.op = "on_ready"
    /\ on_ready_pc = "returned"
    /\ discord_server # 0
    /\ discord_channel = NoChannel
    /\ quits = 0
    /\ SessionState = "Closed"

MessageOps == {"on_message", "on_message_edit", "on_message_delete"}

\* C7: a Created, Edited or Deleted event whose channel is not the resolved
\* target channel adds nothing to the log and changes no program state.
C7_OffTargetIgnored ==
    [][ (delivered' = delivered + 1 /\ last'.after.channel # discord_channel) =>
            /\ last'.op \in MessageOps
            /\ log' = log
            /\ UNCHANGED ProgramVars
            /\ UNCHANGED <<sleeps, quits>>
      ]_vars

\* An edit that changed the content, on another channel of the target
\* server, while the session is Active: nothing was logged for it.
C7_Witness ==
    /\ last.op = "on_message_edit"
    /\ SessionState = "Active"
    /\ discord_channel = <<2, 2>>
    /\ last.after.channel = <<2, 1>>
    /\ last.before.content # last.after.content
    /\ \A i \in 1..Len(log) : log[i].kind # "EDITED"

\* C8: an Edited event on the target channel logs nothing when the content
\* is unchanged, and otherwise appends exactly three lines: the transition
\* line, the before-content, the after-content.
C8_EditedLines ==
    [][ (delivered' = delivered + 1 /\ last'.op = "on_message_edit"
            /\ last'.after.channel = discord_channel) =>
            IF last'.before.content = last'.after.content
            THEN log' = log
            ELSE /\ Len(log') = Len(log) + 3
                 /\ SubSeq(log', 1, Len(log)) = log
                 /\ log'[Len(log) + 1].kind = "EDITED"
                 /\ log'[Len(log) + 2] = Line("\t", "", last'.before.content)
                 /\ log'[Len(log) + 3] = Line("\t", "", last'.after.content)
      ]_vars

C8_Witness ==
    /\ last.op = "on_message_edit"
    /\ last.after.channel = discord_channel
    /\ last.before.content = "hi"
    /\ last.after.content = "yo"
    /\ Len(log) >= 3
    /\ log[Len(log) - 2].kind = "EDITED"
    /\ log[Len(log) - 1].text = "hi"
    /\ log[Len(log)].text = "yo"

\* Two characters that are the same letter in either case.
SameLetter(c, d) == c = d \/ {c, d} = {"a", "A"}

\* Two names that differ at most in letter case.
SameUpToCase(s, t) ==
    /\ Len(s) = Len(t)
    /\ \A i \in 1..Len(s) : SameLetter(s[i], t[i])

\* C9: once on_ready has run with a configured server name, a server is
\* resolved exactly when some joined server's name equals the configured
\* name up to letter case, and the resolved server's name does; the same
\* for the channel among the resolved server's channels.
C9_CaseInsensitiveResolution ==
    (OnReadyRan /\ config.server_name.some) =>
        /\ discord_server # 0 <=>
              \E i \in 1..Len(servers) :
                  SameUpToCase(servers[i].name, config.server_name.v)
        /\ discord_server # 0 =>
              SameUpToCase(servers[discord_server].name, config.server_name.v)
        /\ (discord_server # 0 /\ config.channel_name.some) =>
              /\ discord_channel # NoChannel <=>
                    \E c \in 1..Len(servers[discord_server].channels) :
                        SameUpToCase(servers[discord_server].channels[c],
                                     config.channel_name.v)
              /\ discord_channel # NoChannel =>
                    /\ discord_channel[1] = discord_server
                    /\ SameUpToCase(
                          servers[discord_server].channels[discord_channel[2]],
                          config.channel_name.v)

\* Server and channel were resolved from configured names that differ from
\* the stored names, in letter case only.
C9_Witness ==
    /\ on_ready_pc = "returned"
    /\ discord_server # 0
    /\ discord_channel # NoChannel
    /\ servers[discord_server].name = <<"A", "b">>
    /\ config.server_name.v = <<"a", "b">>
    /\ config.channel_name.v = <<"a", "b">>

\* C10: with the server name or the channel name absent from the config,
\* on_ready ends as a resolution failure: it does not raise, and the client
\* is closed.
C10_AbsentNameFailsResolution ==
    (OnReadyRan /\ (~config.server_name.some \/ ~config.channel_name.some)) =>
        (on_ready_pc = "returned" /\ is_closed)

\* on_ready returned after a server or channel resolution failure.
ResolutionFailed ==
    /\ on_ready_pc = "returned"
    /\ discord_channel = NoChannel

ErrorLogged ==
    \E i \in 1..Len(log) :
        log[i].kind \in {"ERROR Not a member of any server named",
                         "ERROR does not have any channels named"}

\* C11: after a resolution failure the error is in the log, the client is
\* closed and no exception has left client.run; and client.run eventually
\* returns, main logging its last line.
C11_FailureEndsNormally ==
    /\ [](ResolutionFailed =>
            ErrorLogged /\ is_closed /\ main_pc # "crashed")
    /\ (ResolutionFailed ~>
            (main_pc = "stopped" /\ log[Len(log)] = Info("=== STOPPED ===")))

C11_Witness ==
    /\ ServerNotFound
    /\ ErrorLogged
    /\ main_pc = "stopped"
    /\ log[Len(log)] = Info("=== STOPPED ===")
    /\ quits = 0

\* The author a log line names: the per-server nickname when there is one,
\* the global name otherwise.
PreferredAuthor(m) == IF m.author.nick = "" THEN m.author.name ELSE m.author.nick

\* C12: a Created event on the target channel appends exactly one line,
\* "<author> content", and a Deleted event on the target channel exactly one
\* line with the same author choice and the message's content; the author is
\* the nickname when there is one and the global name otherwise.
C12_CreatedDeletedLines ==
    [][ (delivered' = delivered + 1 /\ last'.after.channel = discord_channel) =>
            /\ last'.op = "on_message" =>
                  log' = Append(log, Line("<>", PreferredAuthor(last'.after),
                                          last'.after.content))
            /\ last'.op = "on_message_delete" =>
                  log' = Append(log, Line("DELTEATED", PreferredAuthor(last'.after),
                                          last'.after.content))
      ]_vars

\* Nickname "Bob", content "hi", on the target channel of an Active session:
\* the line is "<Bob> hi".
C12_Witness ==
    /\ last.op = "on_message"
    /\ SessionState = "Active"
    /\ last.after.channel = discord_channel
    /\ last.after.author = [nick |-> "Bob", name |-> "bob"]
    /\ last.after.content = "hi"
    /\ log[Len(log)] = Line("<>", "Bob", "hi")

\* C13 (quit() in its two statements): the cancel comes first and leaves the
\* client as it is, cancelling a heartbeat task that is alive and changing
\* nothing when there is none or it is done; the close follows at once, finds
\* the heartbeat not alive, changes nothing when the client is closed
\* already, and leaves the session Closed.
C13_CancelThenClose ==
    [][ /\ quits' = quits + 1 =>
              /\ last'.op = "quit_cancel"
              /\ is_closed' = is_closed
              /\ heartbeat_task' =
                    (IF HeartbeatAlive THEN "cancelled" ELSE heartbeat_task)
        /\ last.op = "quit_cancel" =>
              /\ last'.op = "quit_close"
              /\ ~HeartbeatAlive
              /\ heartbeat_task' = heartbeat_task
              /\ is_closed => UNCHANGED ProgramVars
              /\ is_closed'
              /\ SessionState' = "Closed"
        /\ last'.op = "quit_close" => last.op = "quit_cancel"
      ]_vars

\* A second quit(): the task is cancelled and the client closed already, and
\* both statements were no-ops.
C13_Witness ==
    /\ last.op = "quit_close"
    /\ quits = 2
    /\ heartbeat_task = "cancelled"
    /\ is_closed
    /\ main_pc = "running"

\* C14: a heartbeat step that finds the client closed ends the task and adds
\* no line; and whenever the client is closed with the heartbeat task still
\* alive, the task eventually is no longer alive.
C14_HeartbeatEndsAfterClose ==
    /\ [][ (last'.op = "heartbeat" /\ is_closed) =>
               heartbeat_task' = "returned" /\ log' = log ]_vars
    /\ ((is_closed /\ HeartbeatAlive) ~> ~HeartbeatAlive)

\* C15: in every state of every interleaving of events and heartbeat ticks
\* the transition line of an Edited event is followed at once by its two
\* content lines, and a content line stands nowhere else: the three lines
\* entered the log in one step, with no liveness line and no line of another
\* event between them.
C15_EditedLinesContiguous ==
    \A i \in 1..Len(log) :
        /\ log[i].kind = "EDITED" =>
              /\ i + 2 <= Len(log)
              /\ log[i + 1].kind = "\t"
              /\ log[i + 2].kind = "\t"
        /\ log[i].kind = "\t" =>
              \/ i > 1 /\ log[i - 1].kind = "EDITED"
              \/ i > 2 /\ log[i - 1].kind = "\t" /\ log[i - 2].kind = "EDITED"

\* A liveness line, the three lines of an edit, the line of a deletion and a
\* liveness line again, one after the other.
C15_Witness ==
    \E i \in 1..Len(log) :
        /\ i + 5 <= Len(log)
        /\ log[i] = Thump
        /\ log[i + 1].kind = "EDITED"
        /\ log[i + 2] = Line("\t", "", "hi")
        /\ log[i + 3] = Line("\t", "", "yo")
        /\ log[i + 4].kind = "DELTEATED"
        /\ log[i + 5] = Thump

\* The resolved server, the resolved channel and the top role.
Resolved == <<discord_server, discord_channel, top_role>>

\* C16: the resolved server, channel and top role change only in the step of
\* on_ready, and only from their initial None; the three handlers, the
\* heartbeat and quit() leave all three as they are.
C16_ResolvedSetOnce ==
    [][ /\ Resolved' # Resolved =>
              /\ last'.op = "on_ready"
              /\ on_ready_pc = "dispatched"
              /\ Resolved = <<0, NoChannel, 0>>
        /\ last'.op \in MessageOps \cup
                         {"heartbeat_begin", "heartbeat_sleep_done",
                          "heartbeat", "quit"} =>
              Resolved' = Resolved
      ]_vars

\* Resolved, then an event, a liveness line and a quit(): still as resolved.
C16_Witness ==
    /\ Resolved = <<2, <<2, 2>>, 2>>
    /\ last.op = "quit"
    /\ delivered = 1
    /\ ThumpCount >= 1
    /\ is_closed

MessageKinds == {"<>", "EDITED", "\t", "DELTEATED"}

\* C17: while no target channel is resolved (before on_ready has run, and
\* after it failed to find the server or the channel) the log holds no
\* Created, Edited or Deleted line, and an event of any kind on any channel
\* leaves the log as it is.
C17_NoLineWhileUnresolved ==
    /\ [](discord_channel = NoChannel =>
              \A i \in 1..Len(log) : log[i].kind \notin MessageKinds)
    /\ [][ (discord_channel = NoChannel /\ last'.op \in MessageOps) =>
               log' = log ]_vars

\* The server was found and the channel was not; then a message with changed
\* content arrives on a channel of that server.
C17_Witness ==
    /\ last.op = "on_message_edit"
    /\ last.before.content # last.after.content
    /\ last.after.channel = <<2, 2>>
    /\ on_ready_pc = "returned"
    /\ discord_server = 2
    /\ discord_channel = NoChannel
    /\ delivered = 1

\* C18: the heartbeat task is created in one step only, main's, before the
\* connection is attempted, and is never created again; and a wake of the
\* heartbeat tests the closed flag alone: an open client gets its liveness
\* line whatever the session state (Disconnected, Resolving or Active), a
\* closed one ends the task without a line.
C18_CreatedOnceTestsClosedOnly ==
    [][ /\ (heartbeat_task = "None" /\ heartbeat_task' # "None") =>
              /\ last'.op = "main"
              /\ heartbeat_task' = "pending"
              /\ on_ready_pc' = "idle"
        /\ heartbeat_task # "None" => heartbeat_task' \notin {"None", "pending"}
        /\ last'.op \in {"connect", "auth_rejected", "network_failure"} =>
              heartbeat_task # "None"
        /\ last'.op = "heartbeat" =>
              IF is_closed
              THEN log' = log /\ heartbeat_task' = "returned"
              ELSE log' = Append(log, Thump) /\ heartbeat_task' = "sleeping"
      ]_vars

\* A wake before the connection exists, and one while on_ready is pending.
C18_Witness ==
    /\ last.op = "heartbeat"
    /\ SessionState = "Resolving"
    /\ log = <<Info("=== STARTED ==="), Thump, Thump>>

====
